---- MODULE Spec2Model ----
(***************************************************************************)
(* The user CRUD service of main.py over its MySQL table "users".          *)
(*                                                                         *)
(* The table is a set of rows.  Every handler opens its own session; a     *)
(* handler that writes is a read step (its queries, which one session sees *)
(* against one snapshot) followed by a commit step (the flush of its       *)
(* INSERT/UPDATE/DELETE and the COMMIT), and the steps of handlers running *)
(* in different server processes interleave freely.  The storage layer     *)
(* enforces what the column declarations of class User state: the primary  *)
(* key, the UNIQUE index on email and the VARCHAR(100) widths.             *)
(* Column values of type DateTime are stored at whole seconds.             *)
(*                                                                         *)
(* resp is the response the latest step sent (NoResp when it sent none);   *)
(* deleted is a history variable, the ids whose DELETE has been committed. *)
(***************************************************************************)
EXTENDS Integers, Sequences, FiniteSets, Bags, TLC

VARIABLES users, nextId, now, req, resp, deleted

vars == <<users, nextId, now, req, resp, deleted>>

(***************************************************************************)
(* Bounds of the model.                                                    *)
(***************************************************************************)
MaxUsers == 2          \* rows ever inserted (ids 1..MaxUsers)
MaxTime == 1           \* last clock reading, in ticks
TicksPerSecond == 2    \* resolution of the modelled clock
MaxSkip == 1           \* largest skip and limit tried by get_users

Procs == {"p1", "p2"}  \* server processes handling requests

(***************************************************************************)
(* Text values.  Unset marks a field absent from an update payload (the    *)
(* attribute is None and exclude_unset drops it); it is not a string a     *)
(* client can send.  LongName has 101 characters.                          *)
(***************************************************************************)
Unset == "<unset>"
StrMax == 100
LongName ==
  "aaaaaaaaaaaaaaaaaaaaaaaaaaaaaaaaaaaaaaaaaaaaaaaaaaaaaaaaaaaaaaaaaaaaaaaaaaaaaaaaaaaaaaaaaaaaaaaaaaaaa"
Names == {"ann", "bob", LongName}
Emails == {"", "a@x"}
UpdNames == {Unset, "bob"}
UpdEmails == Emails \cup {Unset}
Ids == 1..MaxUsers

Min(a, b) == IF a < b THEN a ELSE b

(***************************************************************************)
(* datetime.utcnow() read at tick t, as a DATETIME column stores it: the   *)
(* fraction of the second is rounded to the nearest whole second.          *)
(***************************************************************************)
ToDatetime(t) == (2 * t + TicksPerSecond) \div (2 * TicksPerSecond)

\* The readings a call of datetime.utcnow() can return: the clock never runs back.
ClockReadings == now..MaxTime

(***************************************************************************)
(* Queries.                                                                *)
(***************************************************************************)
\* Faulty variant: the lookup filters on the wrong column
ByEmailWrongColumn(e) == {u \in users : u.name = e}
\* db.query(User).filter(User.email == e).first() finds a row
ByEmail(e) == {u \in users : u.email = e}
\* db.query(User).filter(User.id == i).first() finds a row
ById(i) == {u \in users : u.id = i}

\* Python truthiness of an Optional[str] payload field
Truthy(v) == v \notin {Unset, ""}

\* What the storage layer accepts in a String(100) column
ColumnOk(v) == Len(v) <= StrMax

\* Faulty variant: the id is taken from the row count, so a deleted id comes back
NewIdFromCount == Cardinality(users) + 1
\* The id AUTO_INCREMENT gives the next inserted row
NewId == nextId

\* The row an INSERT of (name, email) stores: the two column defaults are two
\* calls of datetime.utcnow(), read at ticks t1 <= t2.
NewRow(name, email, t1, t2) ==
  [id |-> NewId, name |-> name, email |-> email,
   created_at |-> ToDatetime(t1), updated_at |-> ToDatetime(t2)]

\* Faulty variant: the email column has no UNIQUE index
UniqueOkNoIndex(id, email) == TRUE
\* The UNIQUE index on email rejects a row whose email another row holds.
UniqueOk(id, email) == \A u \in users : u.email = email => u.id = id

(***************************************************************************)
(* Requests in flight and responses.  A request in flight is the state of  *)
(* its handler between two steps: where it stands (pc), the id it is for,  *)
(* the values its session is about to write (name, email), the updated_at  *)
(* it loaded (upd) and the clock tick it read for updated_at (ts).         *)
(* req is the bag of them, one per busy server process.                    *)
(***************************************************************************)
Request(pc, id, name, email, upd, ts) ==
  [pc |-> pc, id |-> id, name |-> name, email |-> email, upd |-> upd, ts |-> ts]
Started(r) == req (+) SetToBag({r})
Finished(r) == req (-) SetToBag({r})
InFlight == BagToSet(req)

NoBody == <<>>
NoResp == [op |-> "none", arg |-> <<>>, status |-> 0, body |-> NoBody]
\* The response of operation op to a request with path or query parameters arg
Response(op, arg, status, body) == [op |-> op, arg |-> arg, status |-> status, body |-> body]

Init ==
  /\ users = {}
  /\ nextId = 1
  /\ now = 0
  /\ req = EmptyBag
  /\ resp = NoResp
  /\ deleted = {}

\* Some server process is free to take a request
Free == BagCardinality(req) < Cardinality(Procs)

\* Creates that passed their existence check and have not committed yet
PendingCreates == BagCardinality([r \in {x \in InFlight : x.pc = "create"} |-> req[r]])

(***************************************************************************)
(* POST /users/                                                            *)
(***************************************************************************)
\* lines 126-131: the existence check
CreateCheck(name, email) ==
  /\ Free
  /\ IF ByEmail(email) # {}
       THEN /\ resp' = Response("create", <<>>, 400, NoBody)
            /\ UNCHANGED req
       ELSE /\ nextId + PendingCreates <= MaxUsers
            /\ req' = Started(Request("create", 0, name, email, 0, 0))
            /\ resp' = NoResp
  /\ UNCHANGED <<users, nextId, now, deleted>>

\* lines 133-146: add, commit, refresh; any storage error is rolled back as 500
CreateCommit(r) ==
  /\ r.pc = "create"
  /\ req' = Finished(r)
  /\ IF ColumnOk(r.name) /\ ColumnOk(r.email) /\ UniqueOk(NewId, r.email)
       THEN \E t1 \in ClockReadings : \E t2 \in t1..MaxTime :
              LET row == NewRow(r.name, r.email, t1, t2) IN
              /\ users' = users \cup {row}
              /\ nextId' = nextId + 1
              /\ now' = t2
              /\ resp' = Response("create", <<>>, 201, row)
       ELSE /\ resp' = Response("create", <<>>, 500, NoBody)
            /\ UNCHANGED <<users, nextId, now>>
  /\ UNCHANGED deleted

(***************************************************************************)
(* GET /users/ and GET /users/{user_id}                                    *)
(***************************************************************************)
\* The orders in which a SELECT without ORDER BY can return the rows
RECURSIVE Orders(_)
Orders(S) == IF S = {} THEN {<<>>} ELSE UNION {{<<x>> \o s : s \in Orders(S \ {x})} : x \in S}
RowOrders == Orders(users)

\* .offset(skip): the rows after the first skip ones
Offset(s, skip) == SubSeq(s, skip + 1, Len(s))
\* Faulty variant: one row too many
LimitOneMore(s, limit) == SubSeq(s, 1, Min(limit + 1, Len(s)))
\* .limit(limit): the first limit rows
Limit(s, limit) == SubSeq(s, 1, Min(limit, Len(s)))

\* lines 151-153
GetUsers(skip, limit) ==
  /\ Free
  /\ \E s \in RowOrders :
       resp' = Response("list", <<skip, limit>>, 200, Limit(Offset(s, skip), limit))
  /\ UNCHANGED <<users, nextId, now, req, deleted>>

\* lines 165-171
GetUser(id) ==
  /\ Free
  /\ IF ById(id) = {}
       THEN resp' = Response("get", <<id>>, 404, NoBody)
       ELSE \E u \in ById(id) : resp' = Response("get", <<id>>, 200, u)
  /\ UNCHANGED <<users, nextId, now, req, deleted>>

(***************************************************************************)
(* PUT /users/{user_id}                                                    *)
(***************************************************************************)
\* lines 202-204: setattr marks a column for the UPDATE only when the value
\* differs from the loaded one; a field absent from the payload is not set.
Dirty(loaded, value) == IF value = Unset \/ value = loaded THEN Unset ELSE value

\* lines 193-195: the payload's email is checked against the other rows
EmailConflict(u, email) == Truthy(email) /\ email # u.email /\ ByEmail(email) # {}

\* lines 185-204: load the user, check the email, set the payload's fields
UpdateLoad(id, name, email) ==
  /\ Free
  /\ IF ById(id) = {}
       THEN /\ resp' = Response("update", <<id>>, 404, NoBody)
            /\ UNCHANGED req
       ELSE \E u \in ById(id) :
              IF EmailConflict(u, email)
                THEN /\ resp' = Response("update", <<id>>, 400, NoBody)
                     /\ UNCHANGED req
                ELSE /\ req' = Started(Request("update", id, Dirty(u.name, name),
                                               Dirty(u.email, email), u.updated_at, 0))
                     /\ resp' = NoResp
  /\ UNCHANGED <<users, nextId, now, deleted>>

\* line 206: user.updated_at = datetime.utcnow()
UpdateStamp(r) ==
  /\ r.pc = "update"
  /\ \E t \in ClockReadings :
       /\ now' = t
       /\ req' = Finished(r) (+) SetToBag({[r EXCEPT !.pc = "stamped", !.ts = t]})
  /\ resp' = NoResp
  /\ UNCHANGED <<users, nextId, deleted>>

\* The session has a value to write for a column of request r's user: name
\* and email as set from the payload, updated_at unless the datetime read at
\* tick r.ts is the very value that was loaded.
FieldsDirty(r) == r.name # Unset \/ r.email # Unset
StampDirty(r) == r.ts # r.upd * TicksPerSecond

\* Faulty variant: a field absent from the payload is cleared instead of kept
UpdatedClearing(u, r, at) ==
  [u EXCEPT !.name = IF r.name = Unset THEN "" ELSE r.name,
            !.email = IF r.email = Unset THEN "" ELSE r.email,
            !.updated_at = at]
\* Faulty variant: updated_at is not refreshed
UpdatedNoStamp(u, r, at) ==
  [u EXCEPT !.name = IF r.name = Unset THEN u.name ELSE r.name,
            !.email = IF r.email = Unset THEN u.email ELSE r.email]
\* The row the UPDATE of request r, with updated_at = at, leaves in place of u
Updated(u, r, at) ==
  [u EXCEPT !.name = IF r.name = Unset THEN u.name ELSE r.name,
            !.email = IF r.email = Unset THEN u.email ELSE r.email,
            !.updated_at = at]

\* The storage layer accepts the UPDATE of request r on row u
UpdateOk(u, r) ==
  /\ r.name # Unset => ColumnOk(r.name)
  /\ r.email # Unset => ColumnOk(r.email) /\ UniqueOk(u.id, r.email)

\* lines 207-218: commit, refresh; any storage error is rolled back as 500.
\* A row deleted since it was loaded makes the flush or the refresh fail.
\* With nothing to write no UPDATE is sent.  An UPDATE that carries no
\* updated_at takes it from the column's onupdate, a new datetime.utcnow().
UpdateCommit(r) ==
  /\ r.pc = "stamped"
  /\ req' = Finished(r)
  /\ IF ById(r.id) = {}
       THEN /\ resp' = Response("update", <<r.id>>, 500, NoBody)
            /\ UNCHANGED <<users, now>>
       ELSE \E u \in ById(r.id) :
              IF ~FieldsDirty(r) /\ ~StampDirty(r)
                THEN /\ resp' = Response("update", <<r.id>>, 200, u)
                     /\ UNCHANGED <<users, now>>
                ELSE IF UpdateOk(u, r)
                  THEN \E t \in IF StampDirty(r) THEN {r.ts} ELSE ClockReadings :
                         LET row == Updated(u, r, ToDatetime(t)) IN
                         /\ users' = (users \ {u}) \cup {row}
                         /\ now' = IF StampDirty(r) THEN now ELSE t
                         /\ resp' = Response("update", <<r.id>>, 200, row)
                  ELSE /\ resp' = Response("update", <<r.id>>, 500, NoBody)
                       /\ UNCHANGED <<users, now>>
  /\ UNCHANGED <<nextId, deleted>>

(***************************************************************************)
(* DELETE /users/{user_id}                                                 *)
(***************************************************************************)
\* lines 224-229
DeleteLoad(id) ==
  /\ Free
  /\ IF ById(id) = {}
       THEN /\ resp' = Response("delete", <<id>>, 404, NoBody)
            /\ UNCHANGED req
       ELSE /\ req' = Started(Request("delete", id, Unset, Unset, 0, 0))
            /\ resp' = NoResp
  /\ UNCHANGED <<users, nextId, now, deleted>>

\* lines 231-233: a DELETE that matches no row any more is not an error
DeleteCommit(r) ==
  /\ r.pc = "delete"
  /\ req' = Finished(r)
  /\ users' = users \ ById(r.id)
  /\ deleted' = deleted \cup {r.id}
  /\ resp' = Response("delete", <<r.id>>, 200, NoBody)
  /\ UNCHANGED <<nextId, now>>

Next ==
  \/ \E name \in Names, email \in Emails : CreateCheck(name, email)
  \/ \E r \in InFlight : CreateCommit(r)
  \/ \E skip \in 0..MaxSkip, limit \in 0..MaxSkip : GetUsers(skip, limit)
  \/ \E id \in Ids : GetUser(id)
  \/ \E id \in Ids, name \in UpdNames, email \in UpdEmails : UpdateLoad(id, name, email)
  \/ \E r \in InFlight : UpdateStamp(r)
  \/ \E r \in InFlight : UpdateCommit(r)
  \/ \E id \in Ids : DeleteLoad(id)
  \/ \E r \in InFlight : DeleteCommit(r)

Spec == Init /\ [][Next]_vars

(***************************************************************************)
(* get_users on seeded tables: the table holds the rows n creates stored,  *)
(* and the only requests are lists.                                        *)
(***************************************************************************)
SeedEmails == <<"u1@x", "u2@x", "u3@x", "u4@x", "u5@x">>
SeedSizes == 0..Len(SeedEmails)
MaxListArg == 5        \* largest skip and limit tried on a seeded table
Seed(n) ==
  {[id |-> i, name |-> "ann", email |-> SeedEmails[i], created_at |-> 0, updated_at |-> 0] :
     i \in 1..n}

InitList ==
  /\ \E n \in SeedSizes : users = Seed(n) /\ nextId = n + 1
  /\ now = 0
  /\ req = EmptyBag
  /\ resp = NoResp
  /\ deleted = {}

NextList == \E skip \in 0..MaxListArg, limit \in 0..MaxListArg : GetUsers(skip, limit)

SpecList == InitList /\ [][NextList]_vars

(***************************************************************************)
(* The claims.                                                             *)
(***************************************************************************)
\* Some stored user holds email e
EmailHeld(e) == \E u \in users : u.email = e
\* Some stored user has id i
IdStored(i) == \E u \in users : u.id = i
\* The latest step answered operation op with status code
Answered(op, code) == resp.op = op /\ resp.status = code
\* The requests the step has put in flight
NewRequests == {r \in BagToSet(req') : CopiesIn(r, req') > CopiesIn(r, req)}

\* C1: in every reachable state, under every interleaving of create, update
\* and delete requests, no two stored users have the same email.
C1_EmailUnique == \A u, v \in users : u.email = v.email => u = v

\* A create passed its existence check and, before it commits, another
\* create stored a user with the same email.
C1_Witness ==
  /\ \E r \in InFlight : r.pc = "create" /\ EmailHeld(r.email)
  /\ Answered("create", 201)

\* C2: a create request whose email a stored user holds is answered 400 and
\* leaves the users table (and so the row count) as it was.
C2_DuplicateCreateRejected ==
  [][(resp'.op = "create" \/ req' # req)
       => \A name \in Names, email \in Emails :
            (EmailHeld(email) /\ CreateCheck(name, email))
              => /\ resp'.op = "create" /\ resp'.status = 400
                 /\ users' = users
                 /\ req' = req]_vars

C2_Witness == Answered("create", 400) /\ users # {}

\* C3 (as claimed): a create request that found its email held by no stored
\* user, with name and email within the column width, is answered 201.
C3_UnusedEmailCreateSucceeds ==
  [][\A r \in InFlight :
       (ColumnOk(r.name) /\ ColumnOk(r.email) /\ CreateCommit(r))
         => resp'.status = 201]_vars

\* C4 (as claimed): a get that directly follows the creation of a user
\* returns the created user's name and email and created_at = updated_at.
C4_CreatedEqualsUpdated ==
  [][\A id \in Ids :
       (Answered("create", 201) /\ resp.body.id = id /\ GetUser(id))
         => /\ resp'.status = 200
            /\ resp'.body.name = resp.body.name
            /\ resp'.body.email = resp.body.email
            /\ resp'.body.created_at = resp'.body.updated_at]_vars

\* C5: an update changes nothing but the payload's fields and updated_at.
\* The fields an update request sets are fields of its payload; a
\* successful commit leaves every field the request does not set, the id
\* and created_at of the user as they were, and every other user unchanged.
C5_UpdateFrame ==
  [][/\ (\E r \in NewRequests : r.pc = "update")
          => \A id \in Ids, name \in UpdNames, email \in UpdEmails :
               UpdateLoad(id, name, email)
                 => \A r \in NewRequests :
                      /\ r.id = id
                      /\ name = Unset => r.name = Unset
                      /\ email = Unset => r.email = Unset
     /\ \A r \in InFlight :
          /\ UpdateStamp(r)
               => \A r2 \in NewRequests :
                    r2.id = r.id /\ r2.name = r.name /\ r2.email = r.email
          /\ (UpdateCommit(r) /\ resp'.status = 200)
               => /\ Cardinality(users') = Cardinality(users)
                  /\ \A u \in users :
                       IF u.id = r.id
                         THEN \E v \in users' :
                                /\ v.id = u.id
                                /\ v.created_at = u.created_at
                                /\ r.name = Unset => v.name = u.name
                                /\ r.email = Unset => v.email = u.email
                         ELSE u \in users']_vars

\* An update of one of two users has changed its name.
C5_Witness ==
  /\ Answered("update", 200)
  /\ Cardinality(users) = 2
  /\ resp.body.name = "bob"
  /\ resp.body.updated_at > resp.body.created_at

C7_TakenEmailRejected ==
  [][\A id \in Ids, name \in UpdNames, email \in Emails :
       (/\ IdStored(id)
        /\ \E u \in users : u.email = email /\ u.id # id
        /\ UpdateLoad(id, name, email))
         => /\ resp'.op = "update" /\ resp'.status = 400
            /\ users' = users]_vars

\* C8: once the delete of id i has been committed, a get of i and a delete
\* of i are answered 404 and no list contains the user; a delete of an id
\* no stored user has is answered 404 and leaves the table unchanged.
C8_DeletedStaysGone ==
  [][/\ resp'.op = "get"
          => \A id \in deleted : GetUser(id) => resp'.status = 404
     /\ (resp'.op = "delete" \/ req' # req)
          => \A id \in Ids :
               ((id \in deleted \/ ~IdStored(id)) /\ DeleteLoad(id))
                 => /\ resp'.op = "delete" /\ resp'.status = 404
                    /\ users' = users
                    /\ req' = req
     /\ resp'.op = "list"
          => \A i \in 1..Len(resp'.body) : resp'.body[i].id \notin deleted]_vars

\* A get of a deleted id was answered 404.
C8_Witness == Answered("get", 404) /\ resp.arg[1] \in deleted

\* C9: on a table of n rows, list users answers 200 with exactly
\* min(limit, max(0, n - skip)) records, all distinct stored users; 2 records
\* for skip=0, limit=2 on 5 users, and none for skip >= n.
C9_PageSize ==
  resp.op = "list"
    => LET n == Cardinality(users)
           skip == resp.arg[1]
           limit == resp.arg[2]
           page == resp.body
           rest == IF n - skip > 0 THEN n - skip ELSE 0
       IN /\ resp.status = 200
          /\ Len(page) = IF limit < rest THEN limit ELSE rest
          /\ \A i \in 1..Len(page) : page[i] \in users
          /\ \A i, j \in 1..Len(page) : page[i] = page[j] => i = j
          /\ (n = 5 /\ skip = 0 /\ limit = 2) => Len(page) = 2
          /\ skip >= n => page = <<>>

\* Two records were returned from a table of five users.
C9_Witness ==
  /\ Cardinality(users) = 5
  /\ Answered("list", 200) /\ resp.arg = <<0, 2>>
  /\ Len(resp.body) = 2

\* C10 (as claimed): of two concurrent creates with the same unused email,
\* the one that adds no row is answered 400.
C10_RaceLoserGets400 ==
  [][\A r \in InFlight :
       (/\ ColumnOk(r.name) /\ ColumnOk(r.email)
        /\ EmailHeld(r.email)
        /\ CreateCommit(r))
         => users' = users /\ resp'.status = 400]_vars
====
